---- MODULE Spec2Model ----
(***************************************************************************)
(* Civic AI Policy Bridge: the Streamlit session (main.py) as a state      *)
(* machine.  One action is one run of the script main() for one user       *)
(* interaction: initialize_session_state(), then the page function chosen  *)
(* in the sidebar, with its widget inputs; a run that ends in st.rerun()   *)
(* includes the rerun.                                                     *)
(***************************************************************************)
EXTENDS Integers, Sequences, FiniteSets, TLC

VARIABLES session_state, view, tie_break

vars == <<session_state, view, tie_break>>

(***************************************************************************)
(* Bounds of the model.                                                    *)
(***************************************************************************)
\* longest store built from the wide form inputs (specification Spec)
MaxStore == 2
\* longest store built from the rule inputs (specification SpecRules)
MaxRules == 4
\* longest store built from the thin inputs (specification SpecLong)
MaxLong == 10

(***************************************************************************)
(* config.py and the option lists of the feedback form.                    *)
(***************************************************************************)
DEMOGRAPHICS ==
    <<"General Citizen", "Student", "Farmer", "Business Owner",
      "Senior Citizen", "Parent", "Teacher", "Healthcare Worker">>

FEEDBACK_TYPES == <<"Support", "Concern", "Suggestion", "Question">>

DemographicOptions ==
    <<"General Citizen", "Student", "Farmer", "Business Owner",
      "Senior Citizen", "Parent", "Teacher", "Healthcare Worker">>

FeedbackTypeOptions == <<"Support", "Concern", "Suggestion", "Question">>

Range(s) == {s[i] : i \in 1..Len(s)}

(***************************************************************************)
(* Python helpers: dict.get, truthiness of str / dict / list.              *)
(***************************************************************************)
EmptyDict == [k \in {} |-> ""]

Get(d, k, default) == IF k \in DOMAIN d THEN d[k] ELSE default

(***************************************************************************)
(* st.session_state: a dict; a key is present once it has been set.        *)
(***************************************************************************)
SessionDefaults ==
    [document_text |-> "", simplified_text |-> "",
     demographic_analysis |-> EmptyDict, feedback_data |-> <<>>,
     insights |-> EmptyDict]

\* a broken initialisation that assigns feedback_data on every run
initialize_session_state_reset(ss) ==
    [(ss @@ SessionDefaults) EXCEPT !.feedback_data = <<>>]

\* each `if key not in st.session_state: st.session_state.key = default`
initialize_session_state(ss) == ss @@ SessionDefaults

(***************************************************************************)
(* pandas, as far as main.py uses it.  A DataFrame built from a list of    *)
(* dicts has the dicts' keys as columns; built from an empty list it has   *)
(* no column at all, and df['c'] on a missing column raises KeyError.      *)
(***************************************************************************)
RecordColumns ==
    <<"timestamp", "name", "demographic", "type", "text", "sentiment",
      "key_points", "category">>

DataFrame(data) ==
    [columns |-> IF data = <<>> THEN <<>> ELSE RecordColumns, rows |-> data]

HasColumn(df, c) == c \in Range(df.columns)

\* df[c] as the sequence of the column's values, in row order
Col(df, c) == [i \in 1..Len(df.rows) |-> df.rows[i][c]]

\* (series == value).sum()
SumEq(series, value) == Cardinality({i \in 1..Len(series) : series[i] = value})

\* (series == value).mean(): sum / count in floating point; den = 0 is NaN
MeanEq(series, value) == [num |-> SumEq(series, value), den |-> Len(series)]

\* a comparison that also fires at the boundary
GreaterThan03_inclusive(m) == m.den > 0 /\ 10 * m.num >= 3 * m.den

\* `m > 0.3`: NaN compares False; num/den is correctly rounded, so for the
\* store sizes a session reaches it exceeds the double 0.3 exactly when
\* num/den > 3/10
GreaterThan03(m) == m.den > 0 /\ 10 * m.num > 3 * m.den

\* f"{m * 100:.1f}": tenths of a percent, round-half-even; "nan" for NaN
Pct1(m) ==
    IF m.den = 0 THEN [nan |-> TRUE, tenths |-> 0]
    ELSE LET q == (1000 * m.num) \div m.den
             r == (1000 * m.num) % m.den
         IN  [nan |-> FALSE,
              tenths |-> IF 2 * r < m.den THEN q
                         ELSE IF 2 * r > m.den THEN q + 1
                         ELSE IF q % 2 = 0 THEN q ELSE q + 1]

\* series.value_counts(): value -> number of occurrences
value_counts(series) ==
    [v \in Range(series) |-> SumEq(series, v)]

\* the values value_counts() can put first: those of the highest count.
\* value_counts sorts by count with sort_values(kind='quicksort'), which
\* is not stable, so the order among equal counts depends on the build.
FirstOfValueCounts(series) ==
    LET vc == value_counts(series)
    IN  {v \in DOMAIN vc : \A w \in DOMAIN vc : vc[w] <= vc[v]}

\* what the build's sort does with equal counts: it leaves the value seen
\* first in the series in front, or the one seen last
TieBreaks == {"first", "last"}

FirstIndex(series, v) ==
    CHOOSE i \in 1..Len(series) :
        series[i] = v /\ \A j \in 1..(i - 1) : series[j] # v

\* value_counts().index[0] under one build: the same series always gives
\* the same first value
TopOfValueCounts(series, tie) ==
    LET tied == FirstOfValueCounts(series)
    IN  CHOOSE v \in tied :
            \A w \in tied :
                IF tie = "first"
                THEN FirstIndex(series, v) <= FirstIndex(series, w)
                ELSE FirstIndex(series, v) >= FirstIndex(series, w)

\* series.nunique()
nunique(series) == Cardinality(Range(series))

\* the rows of df whose column c equals value, in row order
RECURSIVE FilterEq(_, _, _)
FilterEq(rows, c, value) ==
    IF rows = <<>> THEN <<>>
    ELSE IF Head(rows)[c] = value
         THEN <<Head(rows)>> \o FilterEq(Tail(rows), c, value)
         ELSE FilterEq(Tail(rows), c, value)

\* the last n elements in place of the first n
Take_tail(seq, n) ==
    SubSeq(seq, IF Len(seq) < n THEN 1 ELSE Len(seq) - n + 1, Len(seq))

\* seq[:n]
Take(seq, n) == SubSeq(seq, 1, IF Len(seq) < n THEN Len(seq) ELSE n)

\* seq[-n:]
Last(seq, n) == SubSeq(seq, IF Len(seq) < n THEN 1 ELSE Len(seq) - n + 1, Len(seq))

Texts(rows) == [i \in 1..Len(rows) |-> rows[i].text]

(***************************************************************************)
(* generate_recommendations(df).  A recommendation is an f-string, kept    *)
(* as the sequence of its fragments.  top_concerned is demo_concerns       *)
(* .index[0], one of FirstOfValueCounts.                                   *)
(***************************************************************************)
Rule1Text ==
    <<"Consider addressing the high level of concerns (30%+) before policy implementation.">>

Rule2Text(top_concerned) ==
    <<"Focus stakeholder engagement on ", top_concerned,
      " group, which shows highest concern levels.">>

Rule3Text(suggestion_count) ==
    <<"Review ", ToString(suggestion_count),
      " citizen suggestions for potential policy improvements.">>

\* df[df['sentiment'] == 'negative']['demographic']
NegativeDemographics(df) ==
    LET neg == FilterEq(df.rows, "sentiment", "negative")
    IN  [i \in 1..Len(neg) |-> neg[i].demographic]

NoDemographic == "-"

\* the values demo_concerns.index[0] can take (NoDemographic: not evaluated)
TopConcernedChoices(df) ==
    IF ~HasColumn(df, "sentiment") \/ NegativeDemographics(df) = <<>>
    THEN {NoDemographic}
    ELSE FirstOfValueCounts(NegativeDemographics(df))

\* demo_concerns.index[0] under the build's tie-break
TopConcerned(df, tie) ==
    IF TopConcernedChoices(df) = {NoDemographic} THEN NoDemographic
    ELSE TopOfValueCounts(NegativeDemographics(df), tie)

\* rule 3 chained to rule 2 with elif
generate_recommendations_elif(df, top_concerned) ==
    LET negative_pct == MeanEq(Col(df, "sentiment"), "negative")
        demo_concerns == value_counts(NegativeDemographics(df))
        suggestion_count == SumEq(Col(df, "type"), "Suggestion")
    IN  (IF GreaterThan03(negative_pct) THEN <<Rule1Text>> ELSE <<>>)
        \o (IF Cardinality(DOMAIN demo_concerns) > 0
            THEN <<Rule2Text(top_concerned)>>
            ELSE IF suggestion_count > 0
                 THEN <<Rule3Text(suggestion_count)>> ELSE <<>>)

\* suggestions counted among the negative rows only
generate_recommendations_negative(df, top_concerned) ==
    LET negative_pct == MeanEq(Col(df, "sentiment"), "negative")
        demo_concerns == value_counts(NegativeDemographics(df))
        suggestion_count ==
            Len(FilterEq(FilterEq(df.rows, "sentiment", "negative"),
                         "type", "Suggestion"))
    IN  (IF GreaterThan03(negative_pct) THEN <<Rule1Text>> ELSE <<>>)
        \o (IF Cardinality(DOMAIN demo_concerns) > 0
            THEN <<Rule2Text(top_concerned)>> ELSE <<>>)
        \o (IF suggestion_count > 0
            THEN <<Rule3Text(suggestion_count)>> ELSE <<>>)

\* applied to frames that have their columns: insights_body raises the
\* KeyError of a frame without columns before it gets here
generate_recommendations(df, top_concerned) ==
    LET negative_pct == MeanEq(Col(df, "sentiment"), "negative")
        demo_concerns == value_counts(NegativeDemographics(df))
        suggestion_count == SumEq(Col(df, "type"), "Suggestion")
    IN  (IF GreaterThan03(negative_pct) THEN <<Rule1Text>> ELSE <<>>)
        \o (IF Cardinality(DOMAIN demo_concerns) > 0
            THEN <<Rule2Text(top_concerned)>> ELSE <<>>)
        \o (IF suggestion_count > 0
            THEN <<Rule3Text(suggestion_count)>> ELSE <<>>)

(***************************************************************************)
(* generate_summary_report(df): the report as the record of the values     *)
(* the template embeds, under its fixed section headers.                   *)
(***************************************************************************)
ReportHeaders ==
    <<"POLICY FEEDBACK ANALYSIS REPORT", "SUMMARY STATISTICS",
      "DEMOGRAPHIC BREAKDOWN", "SENTIMENT ANALYSIS", "FEEDBACK TYPES",
      "TOP CONCERNS", "TOP SUPPORT POINTS">>

\* for i, text in enumerate(texts, 1): f"{i}. {text}\n"
Numbered(texts) == [i \in 1..Len(texts) |-> <<ToString(i), ". ", texts[i]>>]

generate_summary_report(df, now) ==
    [headers |-> ReportHeaders,
     generated |-> now,
     total_feedback |-> Len(df.rows),
     support_rate |-> Pct1(MeanEq(Col(df, "sentiment"), "positive")),
     concern_rate |-> Pct1(MeanEq(Col(df, "sentiment"), "negative")),
     demographics_represented |-> nunique(Col(df, "demographic")),
     demographic_breakdown |-> value_counts(Col(df, "demographic")),
     sentiment_analysis |-> value_counts(Col(df, "sentiment")),
     feedback_types |-> value_counts(Col(df, "type")),
     concerns |->
        Numbered(Take(Texts(FilterEq(df.rows, "sentiment", "negative")), 5)),
     support |->
        Numbered(Take(Texts(FilterEq(df.rows, "sentiment", "positive")), 5))]

(***************************************************************************)
(* What one run of the script leaves on the page, and the locals of the    *)
(* handler the properties speak of.                                        *)
(***************************************************************************)
NoCounts == [v \in {} |-> 0]

EmptyView ==
    [page |-> "", warning |-> "", exception |-> "",
     simplified |-> "", cards |-> {},
     analysis |-> <<>>, form |-> <<>>, feedback_entry |-> <<>>,
     type_counts |-> NoCounts, sentiment_counts |-> NoCounts, recent |-> <<>>,
     metrics |-> <<>>, hourly_counts |-> NoCounts, demo_sentiment |-> NoCounts,
     concerns |-> <<>>, support |-> <<>>,
     recommendations |-> <<>>, top_concerned |-> NoDemographic,
     download |-> <<>>]

(***************************************************************************)
(* policy_upload_page.  in holds the values of the page's widgets,         *)
(* analyzer what the analyzer returns for the document.                    *)
(***************************************************************************)
policy_upload_page(ss, in, analyzer) ==
    LET ss1 == IF in.upload_option = "Upload File"
               THEN IF in.uploaded
                    THEN [ss EXCEPT !.document_text = in.text] ELSE ss
               ELSE IF in.text # ""
                    THEN [ss EXCEPT !.document_text = in.text] ELSE ss
        analyze == ss1.document_text # "" /\ in.api_key # "" /\ in.clicked
        \* st.rerun(): the script runs again, the button is no longer clicked
        ss2 == IF analyze
               THEN initialize_session_state(
                        [ss1 EXCEPT
                            !.simplified_text = analyzer.simplified,
                            !.demographic_analysis = analyzer.demographics])
               ELSE ss1
    IN  [session_state |-> ss2,
         view |-> [EmptyView EXCEPT
                      !.page = "upload",
                      !.simplified = ss2.simplified_text,
                      !.analysis =
                          IF analyze
                          THEN <<[api_key |-> in.api_key,
                                  document_text |-> ss1.document_text]>>
                          ELSE <<>>]]

(***************************************************************************)
(* analysis_dashboard_page                                                 *)
(***************************************************************************)
analysis_dashboard_page(ss) ==
    [session_state |-> ss,
     view |-> IF DOMAIN ss.demographic_analysis = {}
              THEN [EmptyView EXCEPT
                        !.page = "dashboard",
                        !.warning = "Please upload and analyze a document first!"]
              ELSE [EmptyView EXCEPT
                        !.page = "dashboard",
                        !.cards = DOMAIN ss.demographic_analysis]]

(***************************************************************************)
(* feedback_page.  form is what the form holds when the run starts         *)
(* (submitted: the submit button was pressed), processed what              *)
(* ai_analyzer.process_feedback returns, now is datetime.now().            *)
(***************************************************************************)
FeedbackEntry(form, processed, now) ==
    [timestamp |-> now,
     name |-> IF form.name # "" THEN form.name ELSE "Anonymous",
     demographic |-> form.demographic,
     type |-> form.type,
     text |-> form.text,
     sentiment |-> Get(processed, "sentiment", "neutral"),
     key_points |-> Get(processed, "key_points", <<>>),
     category |-> Get(processed, "category", "general")]

\* the right column and the list under the form
FeedbackStats(ss) ==
    LET data == ss.feedback_data
        df == DataFrame(data)
    IN  IF data = <<>> THEN EmptyView
        ELSE [EmptyView EXCEPT
                 !.type_counts = value_counts(Col(df, "type")),
                 !.sentiment_counts = value_counts(Col(df, "sentiment")),
                 !.recent = Last(data, 5)]

\* the form accepts a submission whatever the text
feedback_page_anytext(ss, form, processed, now) ==
    IF ss.simplified_text = ""
    THEN [session_state |-> ss,
          view |-> [EmptyView EXCEPT
                      !.page = "feedback",
                      !.warning = "Please analyze a document first to collect feedback!"]]
    ELSE LET entry == FeedbackEntry(form, processed, now)
             ss1 == IF form.submitted
                    THEN initialize_session_state(
                             [ss EXCEPT !.feedback_data = Append(@, entry)])
                    ELSE ss
         IN  [session_state |-> ss1,
              view |-> [FeedbackStats(ss1) EXCEPT
                          !.page = "feedback",
                          !.simplified = ss1.simplified_text,
                          !.form = IF form.submitted THEN <<form>> ELSE <<>>,
                          !.feedback_entry =
                              IF form.submitted THEN <<entry>> ELSE <<>>]]

\* the page without its "analyze a document first" guard
feedback_page_noguard(ss, form, processed, now) ==
    LET accepted == form.submitted /\ form.text # ""
        entry == FeedbackEntry(form, processed, now)
        ss1 == IF accepted
               THEN initialize_session_state(
                        [ss EXCEPT !.feedback_data = Append(@, entry)])
               ELSE ss
    IN  [session_state |-> ss1,
         view |-> [FeedbackStats(ss1) EXCEPT
                     !.page = "feedback",
                     !.simplified = ss1.simplified_text,
                     !.form = IF form.submitted THEN <<form>> ELSE <<>>,
                     !.feedback_entry =
                         IF accepted THEN <<entry>> ELSE <<>>]]

feedback_page(ss, form, processed, now) ==
    IF ss.simplified_text = ""
    THEN [session_state |-> ss,
          view |-> [EmptyView EXCEPT
                      !.page = "feedback",
                      !.warning = "Please analyze a document first to collect feedback!"]]
    ELSE LET accepted == form.submitted /\ form.text # ""
             entry == FeedbackEntry(form, processed, now)
             \* append, then st.rerun(): the script runs again, not submitted
             ss1 == IF accepted
                    THEN initialize_session_state(
                             [ss EXCEPT !.feedback_data = Append(@, entry)])
                    ELSE ss
         IN  [session_state |-> ss1,
              view |-> [FeedbackStats(ss1) EXCEPT
                          !.page = "feedback",
                          !.simplified = ss1.simplified_text,
                          !.form = IF form.submitted THEN <<form>> ELSE <<>>,
                          !.feedback_entry =
                              IF accepted THEN <<entry>> ELSE <<>>]]

(***************************************************************************)
(* insights_page.  button is the export button pressed for this run        *)
(* ("", "csv" or "report"), top_concerned the first index of               *)
(* demo_concerns, now is datetime.now().                                   *)
(***************************************************************************)
\* df['hour'] = df['timestamp'].dt.hour
WithHour(df) ==
    [columns |-> Append(df.columns, "hour"),
     rows |-> [i \in 1..Len(df.rows) |->
                  df.rows[i] @@ [hour |-> df.rows[i].timestamp.hour]]]

\* the table with one row per option of the demographic select box
DemoSentiment_enumeration(df) ==
    [d \in Range(DemographicOptions) |->
        [s \in Range(Col(df, "sentiment")) |->
            Cardinality({i \in 1..Len(df.rows) :
                            /\ df.rows[i].demographic = d
                            /\ df.rows[i].sentiment = s})]]

\* df.groupby(['demographic', 'sentiment']).size().unstack(fill_value=0)
DemoSentiment(df) ==
    [d \in Range(Col(df, "demographic")) |->
        [s \in Range(Col(df, "sentiment")) |->
            Cardinality({i \in 1..Len(df.rows) :
                            /\ df.rows[i].demographic = d
                            /\ df.rows[i].sentiment = s})]]

\* df.to_csv(index=False): the header, then one line per row
to_csv(df) ==
    [header |-> df.columns,
     rows |-> [i \in 1..Len(df.rows) |->
                  [j \in 1..Len(df.columns) |-> df.rows[i][df.columns[j]]]]]

\* the page from the line after the empty-store guard to its end
insights_body(data, button, top_concerned, now) ==
    LET df0 == DataFrame(data)
    IN  IF ~HasColumn(df0, "sentiment")
        THEN [EmptyView EXCEPT !.page = "insights", !.exception = "KeyError"]
        ELSE
        LET df == WithHour(df0)
            sentiment == Col(df, "sentiment")
        IN  [EmptyView EXCEPT
               !.page = "insights",
               !.metrics =
                  <<[total |-> Len(df.rows),
                     support_pct |-> Pct1(MeanEq(sentiment, "positive")),
                     concern_pct |-> Pct1(MeanEq(sentiment, "negative")),
                     demographics |-> nunique(Col(df, "demographic"))]>>,
               !.hourly_counts = value_counts(Col(df, "hour")),
               !.demo_sentiment = DemoSentiment(df),
               !.concerns =
                  Take(Texts(FilterEq(df.rows, "sentiment", "negative")), 3),
               !.support =
                  Take(Texts(FilterEq(df.rows, "sentiment", "positive")), 3),
               !.recommendations =
                  IF Len(df.rows) > 0
                  THEN generate_recommendations(df, top_concerned) ELSE <<>>,
               !.top_concerned = top_concerned,
               !.download =
                  IF button = "csv"
                  THEN <<[kind |-> "csv", csv |-> to_csv(df),
                          file_name |-> <<"policy_feedback_", now.date, ".csv">>]>>
                  ELSE IF button = "report"
                  THEN <<[kind |-> "report",
                          report |-> generate_summary_report(df, now),
                          file_name |->
                             <<"policy_insights_report_", now.date, ".txt">>]>>
                  ELSE <<>>]

\* the page without its empty-store guard
insights_page_noguard(ss, button, top_concerned, now) ==
    [session_state |-> ss,
     view |-> insights_body(ss.feedback_data, button, top_concerned, now)]

\* the page storing the rows of its frame, hour included, back in the session
insights_page_writeback(ss, button, top_concerned, now) ==
    [session_state |->
        [ss EXCEPT !.feedback_data = WithHour(DataFrame(ss.feedback_data)).rows],
     view |-> IF ss.feedback_data = <<>>
              THEN [EmptyView EXCEPT
                      !.page = "insights",
                      !.warning = "No feedback data available for insights!"]
              ELSE insights_body(ss.feedback_data, button, top_concerned, now)]

insights_page(ss, button, top_concerned, now) ==
    [session_state |-> ss,
     view |-> IF ss.feedback_data = <<>>
              THEN [EmptyView EXCEPT
                      !.page = "insights",
                      !.warning = "No feedback data available for insights!"]
              ELSE insights_body(ss.feedback_data, button, top_concerned, now)]

(***************************************************************************)
(* Inputs of a run: what the user enters, what the analyzer and the        *)
(* classifier return, what the clock reads.                                *)
(***************************************************************************)
Instant(h) == [date |-> "20250101", hour |-> h]

AnalyzerResult(simplified, demographics) ==
    [simplified |-> simplified, demographics |-> demographics]

Impact == [student |-> [impact |-> "fees"]]

\* ai_analyzer.simplify_text and analyze_demographic_impact
AnalyzerResults ==
    {AnalyzerResult("", EmptyDict), AnalyzerResult("plain policy", EmptyDict),
     AnalyzerResult("plain policy", Impact)}

UploadInput(api_key, upload_option, uploaded, text, clicked) ==
    [api_key |-> api_key, upload_option |-> upload_option,
     uploaded |-> uploaded, text |-> text, clicked |-> clicked]

\* every way to fill the upload page
UploadInputs ==
    {UploadInput(k, o[1], o[2], o[3], c) :
        k \in {"", "sk-test"},
        o \in {<<"Upload File", FALSE, "">>, <<"Upload File", TRUE, "">>,
               <<"Upload File", TRUE, "policy text">>,
               <<"Paste Text", FALSE, "">>,
               <<"Paste Text", FALSE, "policy text">>},
        c \in BOOLEAN}

\* the upload page filled in full, with or without pressing the button
UploadInputsFilled ==
    {UploadInput("sk-test", "Paste Text", FALSE, "policy text", c) :
        c \in BOOLEAN}

\* ai_analyzer.process_feedback: a dict with 'sentiment', 'key_points' and
\* 'category', any of them possibly missing, the sentiment possibly not
\* one of the three labels
Classified(sentiment) ==
    [sentiment |-> sentiment, key_points |-> <<"cost">>, category |-> "economy"]

process_feedback ==
    {EmptyDict, [sentiment |-> "mixed"], Classified("negative")}

process_feedback_labels == {Classified("positive"), Classified("negative")}

Forms(names, demographics, types, texts) ==
    [name : names, demographic : demographics, type : types, text : texts,
     submitted : BOOLEAN]

\* a different text for each position of the store
LongTexts ==
    <<"t1", "t2", "t3", "t4", "t5", "t6", "t7", "t8", "t9", "t10", "t11",
      "t12", "t13">>

(***************************************************************************)
(* The state machine.                                                      *)
(***************************************************************************)
Init ==
    /\ session_state = EmptyDict
    /\ view = EmptyView
    /\ tie_break \in TieBreaks

\* main() for the upload page, for each input of `inputs`
PolicyUpload(inputs, results) ==
    {policy_upload_page(initialize_session_state(session_state), in, res) :
        in \in inputs, res \in results}

\* main() for the feedback page, the store kept within `bound`
Feedback(forms, outputs, instants, bound) ==
    {r \in {feedback_page(initialize_session_state(session_state),
                          form, processed, now) :
               form \in forms, processed \in outputs, now \in instants} :
        Len(r.session_state.feedback_data) <= bound}

\* main() for the insights page
Insights(buttons, instants) ==
    LET ss == initialize_session_state(session_state)
    IN  {insights_page(ss, button,
                       TopConcerned(DataFrame(ss.feedback_data), tie_break), now) :
            button \in buttons, now \in instants}

StoreLen ==
    IF "feedback_data" \in DOMAIN session_state
    THEN Len(session_state.feedback_data) ELSE 0

PolicyUploadRun ==
    \E r \in PolicyUpload(UploadInputs, AnalyzerResults) :
        /\ session_state' = r.session_state
        /\ view' = r.view
        /\ UNCHANGED tie_break

AnalysisDashboardRun ==
    \E r \in {analysis_dashboard_page(initialize_session_state(session_state))} :
        /\ session_state' = r.session_state
        /\ view' = r.view
        /\ UNCHANGED tie_break

FeedbackRun ==
    \E r \in Feedback(Forms({""}, {DemographicOptions[2], DemographicOptions[3]},
                            {FeedbackTypeOptions[2]},
                            {"", "more buses"}),
                      process_feedback, {Instant(9)}, MaxStore) :
        /\ session_state' = r.session_state
        /\ view' = r.view
        /\ UNCHANGED tie_break

InsightsRun ==
    \E r \in Insights({"", "csv", "report"}, {Instant(9), Instant(10)}) :
        /\ session_state' = r.session_state
        /\ view' = r.view
        /\ UNCHANGED tie_break

Next ==
    \/ PolicyUploadRun
    \/ AnalysisDashboardRun
    \/ FeedbackRun
    \/ InsightsRun

Spec == Init /\ [][Next]_vars

(***************************************************************************)
(* The rules of generate_recommendations: stores of up to MaxRules         *)
(* records that differ in type and sentiment.                              *)
(***************************************************************************)
PolicyUploadFilled ==
    \E r \in PolicyUpload(UploadInputsFilled,
                          {AnalyzerResult("plain policy", Impact)}) :
        /\ session_state' = r.session_state
        /\ view' = r.view
        /\ UNCHANGED tie_break

FeedbackRules ==
    \E r \in Feedback(Forms({"Asha"}, {DemographicOptions[3]},
                            {FeedbackTypeOptions[1], FeedbackTypeOptions[3]},
                            {"more buses"}),
                      process_feedback_labels, {Instant(10)}, MaxRules) :
        /\ session_state' = r.session_state
        /\ view' = r.view
        /\ UNCHANGED tie_break

InsightsShown ==
    \E r \in Insights({""}, {Instant(11)}) :
        /\ session_state' = r.session_state
        /\ view' = r.view
        /\ UNCHANGED tie_break

NextRules ==
    \/ PolicyUploadFilled
    \/ FeedbackRules
    \/ InsightsShown

SpecRules == Init /\ [][NextRules]_vars

(***************************************************************************)
(* The threshold of rule 1: stores of up to MaxLong records that differ    *)
(* in sentiment and text.                                                  *)
(***************************************************************************)
FeedbackLong ==
    \E r \in Feedback(Forms({"Asha"}, {DemographicOptions[1]},
                            {FeedbackTypeOptions[4]},
                            {LongTexts[StoreLen + 1]}),
                      process_feedback_labels, {Instant(23)}, MaxLong) :
        /\ session_state' = r.session_state
        /\ view' = r.view
        /\ UNCHANGED tie_break

NextLong ==
    \/ PolicyUploadFilled
    \/ FeedbackLong
    \/ InsightsShown

SpecLong == Init /\ [][NextLong]_vars

(***************************************************************************)
(* The summary report over the same stores: every visit of the insights    *)
(* page presses the report button.                                         *)
(***************************************************************************)
InsightsReport ==
    \E r \in Insights({"report"}, {Instant(11)}) :
        /\ session_state' = r.session_state
        /\ view' = r.view
        /\ UNCHANGED tie_break

NextReport ==
    \/ PolicyUploadFilled
    \/ FeedbackLong
    \/ InsightsReport

SpecReport == Init /\ [][NextReport]_vars

(***************************************************************************)
(* Properties.                                                             *)
(***************************************************************************)
Store ==
    IF "feedback_data" \in DOMAIN session_state
    THEN session_state.feedback_data ELSE <<>>

SentimentClasses == {"positive", "negative", "neutral"}

CountSentiment(s) == Cardinality({i \in 1..Len(Store) : Store[i].sentiment = s})

CountType(t) == Cardinality({i \in 1..Len(Store) : Store[i].type = t})

\* the insights page got past its guard and rendered
InsightsRendered == view.page = "insights" /\ view.metrics # <<>>

ValidShape(r) ==
    /\ r.text # ""
    /\ r.demographic \in Range(DEMOGRAPHICS)
    /\ r.type \in Range(FEEDBACK_TYPES)

\* C1: every stored record has a non-empty text, a demographic of the
\* enumeration and a type of the enumeration; a submission that violates
\* one of these builds no record and leaves the store as it was.
C1_OnlyValidRecordsStored ==
    /\ [](\A i \in 1..Len(Store) : ValidShape(Store[i]))
    /\ [][(view'.page = "feedback" /\ view'.form # <<>>
             /\ ~ValidShape(view'.form[1]))
          => (Store' = Store /\ view'.feedback_entry = <<>>)]_vars

C1_Witness ==
    /\ view.page = "feedback"
    /\ view.form # <<>>
    /\ view.form[1].text = ""
    /\ view.feedback_entry = <<>>
    /\ Len(Store) = 1

\* C2: over any step the store keeps every record it had, at the same
\* position and with the same fields, and grows by at most one record: by
\* exactly the submitted record, at the end, when a submission is accepted,
\* and not at all otherwise.
C2_StoreOnlyGrows ==
    [][/\ Len(Store') >= Len(Store)
       /\ SubSeq(Store', 1, Len(Store)) = Store
       /\ IF view'.feedback_entry # <<>>
          THEN Store' = Append(Store, view'.feedback_entry[1])
          ELSE Store' = Store]_vars

C2_Witness ==
    /\ Len(Store) = 2
    /\ view.page = "insights"
    /\ view.download # <<>>
    /\ view.download[1].kind = "report"
    /\ session_state.simplified_text = ""

\* C3: every sentiment aggregation counts each stored record under exactly
\* one of positive, negative and neutral: the feedback page's sentiment
\* counts have no other class, and their three counts add up to the store.
C3_ThreeSentimentClasses ==
    (view.page = "feedback" /\ Store # <<>> /\ view.warning = "")
    => /\ DOMAIN view.sentiment_counts \subseteq SentimentClasses
       /\ Get(view.sentiment_counts, "positive", 0)
            + Get(view.sentiment_counts, "negative", 0)
            + Get(view.sentiment_counts, "neutral", 0) = Len(Store)

\* C4: rule 1 is among the recommendations exactly when ten times the
\* number of negative records exceeds three times the number of records.
C4_Rule1StrictThreshold ==
    InsightsRendered
    => (Rule1Text \in Range(view.recommendations)
          <=> 10 * CountSentiment("negative") > 3 * Len(Store))

C4_Witness ==
    /\ InsightsRendered
    /\ Len(Store) = 10
    /\ CountSentiment("negative") = 3
    /\ Rule1Text \notin Range(view.recommendations)

NegativeOf(d) ==
    {i \in 1..Len(Store) :
        Store[i].sentiment = "negative" /\ Store[i].demographic = d}

ConcernedDemographics == {d \in Range(DEMOGRAPHICS) : NegativeOf(d) # {}}

Earliest(S) == CHOOSE i \in S : \A j \in S : i <= j

\* the demographic of the most negative records; among those of equal
\* count, the one whose first negative record is the earliest
TopConcernedDemographic ==
    CHOOSE d \in ConcernedDemographics :
        \A e \in ConcernedDemographics \ {d} :
            \/ Cardinality(NegativeOf(e)) < Cardinality(NegativeOf(d))
            \/ /\ Cardinality(NegativeOf(e)) = Cardinality(NegativeOf(d))
               /\ Earliest(NegativeOf(d)) < Earliest(NegativeOf(e))

StartingWith(first) ==
    {k \in 1..Len(view.recommendations) : view.recommendations[k][1] = first}

\* C6: the recommendations are the strings of the rules whose own condition
\* holds, in the order rule 1, rule 2, rule 3, each once: rule 1 when more
\* than 30% of the records are negative, rule 2 when a record is negative,
\* rule 3 when a record is a Suggestion.
C6_RulesIndependentInOrder ==
    InsightsRendered
    => /\ \E d \in Range(DEMOGRAPHICS) :
            view.recommendations =
                (IF 10 * CountSentiment("negative") > 3 * Len(Store)
                 THEN <<Rule1Text>> ELSE <<>>)
                \o (IF CountSentiment("negative") > 0
                    THEN <<Rule2Text(d)>> ELSE <<>>)
                \o (IF CountType("Suggestion") > 0
                    THEN <<Rule3Text(CountType("Suggestion"))>> ELSE <<>>)
       /\ \A j, k \in 1..Len(view.recommendations) :
            view.recommendations[j] = view.recommendations[k] => j = k

\* rules 2 and 3 fire, rule 1 does not
C6_Witness ==
    /\ InsightsRendered
    /\ Len(view.recommendations) = 2
    /\ CountSentiment("negative") = 1
    /\ Len(Store) = 4
    /\ CountType("Suggestion") = 3

\* C7: a recommendation to review suggestions is shown exactly when a
\* stored record has the type Suggestion, and it embeds the number of
\* stored records of that type.
C7_Rule3CountsSuggestions ==
    InsightsRendered
    => /\ (StartingWith("Review ") # {} <=> CountType("Suggestion") > 0)
       /\ \A k \in StartingWith("Review ") :
            view.recommendations[k][2] = ToString(CountType("Suggestion"))

\* two suggestions of positive sentiment among three records
C7_Witness ==
    /\ InsightsRendered
    /\ Len(Store) = 3
    /\ CountType("Suggestion") = 2
    /\ CountSentiment("negative") = 0
    /\ StartingWith("Review ") # {}

ZeroPct == [nan |-> FALSE, tenths |-> 0]

C9_EmptyStoreNoRecommendation ==
    (view.page = "insights" /\ Store = <<>>)
    => /\ view.recommendations = <<>>
       /\ view.exception = ""

\* the document is analysed, feedback could be given, none was
C9_Witness ==
    /\ view.page = "insights"
    /\ Store = <<>>
    /\ view.exception = ""
    /\ session_state.simplified_text # ""

\* C10: in the report of a non-empty store the counts of positive, neutral
\* and negative records add up to the number of records.
C10_SentimentCountsSumToTotal ==
    (InsightsRendered /\ view.download # <<>> /\ view.download[1].kind = "report")
    => LET report == view.download[1].report
       IN  Get(report.sentiment_analysis, "positive", 0)
             + Get(report.sentiment_analysis, "neutral", 0)
             + Get(report.sentiment_analysis, "negative", 0)
           = report.total_feedback

(***************************************************************************)
(* C11: the demographic x sentiment table of the insights page.            *)
(***************************************************************************)
DemographicsPresent == {Store[i].demographic : i \in 1..Len(Store)}

SentimentsPresent == {Store[i].sentiment : i \in 1..Len(Store)}

CountDemographic(d) ==
    Cardinality({i \in 1..Len(Store) : Store[i].demographic = d})

CountCell(d, s) ==
    Cardinality({i \in 1..Len(Store) :
                    Store[i].demographic = d /\ Store[i].sentiment = s})

RECURSIVE RowSum(_, _)
RowSum(row, columns) ==
    IF columns = {} THEN 0
    ELSE LET c == CHOOSE x \in columns : TRUE
         IN  row[c] + RowSum(row, columns \ {c})

CsvDownloaded ==
    /\ view.page = "insights"
    /\ view.download # <<>>
    /\ view.download[1].kind = "csv"

\* C13: whenever the CSV export is produced, it has one data row per stored
\* record, in insertion order, and its columns are exactly the eight
\* attributes of a record in their fixed order, with no derived column such
\* as the hour of the timeline.
C13_ExportRecordColumnsOnly ==
    CsvDownloaded =>
        LET csv == view.download[1].csv
        IN  /\ Len(csv.rows) = Len(Store)
            /\ csv.header = RecordColumns
            /\ \A i \in 1..Len(Store) :
                  csv.rows[i] =
                      [j \in 1..Len(RecordColumns) |-> Store[i][RecordColumns[j]]]

(***************************************************************************)
(* C12: the two text sections of the summary report.                       *)
(***************************************************************************)
ReportDownloaded ==
    /\ view.page = "insights"
    /\ view.download # <<>>
    /\ view.download[1].kind = "report"

MatchingIndices(s) == {i \in 1..Len(Store) : Store[i].sentiment = s}

\* the position in the store of the j-th record of sentiment s
NthMatching(s, j) ==
    CHOOSE i \in MatchingIndices(s) :
        Cardinality({x \in MatchingIndices(s) : x < i}) = j - 1

ExpectedSection(s) ==
    LET k == Cardinality(MatchingIndices(s))
    IN  [j \in 1..(IF k < 5 THEN k ELSE 5) |->
            <<ToString(j), ". ", Store[NthMatching(s, j)].text>>]

\* C12: in every report, the concern section is the texts of the first
\* min(5, k) negative records of the store in insertion order, numbered from
\* 1 and verbatim, and the support section is the same for the positive
\* records. Line j is the text of the j-th matching record, which depends
\* only on the store up to that record, so a later record never displaces
\* an earlier one.
C12_ReportListsFirstFive ==
    ReportDownloaded =>
        /\ view.download[1].report.concerns = ExpectedSection("negative")
        /\ view.download[1].report.support = ExpectedSection("positive")

\* a report over more than five negative records, the first record of the
\* store positive and the last one negative
C12_Witness ==
    /\ ReportDownloaded
    /\ Len(view.download[1].report.concerns) = 5
    /\ Cardinality(MatchingIndices("negative")) > 5
    /\ Len(view.download[1].report.support) > 1
    /\ Store[1].sentiment = "positive"
    /\ Store[Len(Store)].sentiment = "negative"

(***************************************************************************)
(* C14: the insights page reads the store and repeats itself.              *)
(***************************************************************************)
\* what the page shows apart from the file offered for download
Shown(v) == [v EXCEPT !.download = <<>>]

\* the report apart from its "Generated:" line
Undated(report) == [report EXCEPT !.generated = Instant(0)]

\* C14: a run of the insights page, whether it only shows the aggregates and
\* recommendations or also produces the report or the export, leaves the
\* store as it was (same records, same order, same fields); and when the
\* page runs twice in a row, with no append between, the second run shows
\* the same aggregates and recommendations as the first, and a second report
\* equals the first apart from its generation timestamp.
C14_InsightsPureAndRepeatable ==
    [][view'.page = "insights" =>
          /\ Store' = Store
          /\ (InsightsRendered /\ InsightsRendered') =>
                Shown(view') = Shown(view)
          /\ (ReportDownloaded /\ ReportDownloaded') =>
                Undated(view'.download[1].report)
                    = Undated(view.download[1].report)]_vars

\* a report generated at the later instant over a store of two negative
\* records of different demographics, with recommendations shown
C14_Witness ==
    /\ ReportDownloaded
    /\ view.download[1].report.generated = Instant(10)
    /\ Len(Store) = 2
    /\ Cardinality(ConcernedDemographics) = 2
    /\ view.recommendations # <<>>

(***************************************************************************)
(* C15: analysis comes before feedback.                                    *)
(***************************************************************************)
SimplifiedText ==
    IF "simplified_text" \in DOMAIN session_state
    THEN session_state.simplified_text ELSE ""

\* C15: a session starts with no simplified text and an empty store; a step
\* changes the store only if it is a run of the feedback page started with a
\* non-empty simplified text; a step changes the simplified text only if it
\* is a run of the upload page whose analysis executed with a non-empty
\* document text and a non-empty API key; and a run of the feedback page
\* started with an empty simplified text shows the warning, offers no form
\* and stores nothing. Hence the first append comes after a completed
\* analysis.
C15_AnalysisBeforeFeedback ==
    /\ (SimplifiedText = "" /\ Store = <<>>)
    /\ [][/\ Store' # Store =>
               /\ SimplifiedText # ""
               /\ view'.page = "feedback"
          /\ SimplifiedText' # SimplifiedText =>
               /\ view'.page = "upload"
               /\ view'.analysis # <<>>
               /\ view'.analysis[1].api_key # ""
               /\ view'.analysis[1].document_text # ""
          /\ (view'.page = "feedback" /\ SimplifiedText = "") =>
               /\ Store' = Store
               /\ view'.form = <<>>
               /\ view'.feedback_entry = <<>>
               /\ view'.warning
                    = "Please analyze a document first to collect feedback!"]_vars

\* the first record has just been appended, after an analysis
C15_Witness ==
    /\ view.page = "feedback"
    /\ view.feedback_entry # <<>>
    /\ Store = <<view.feedback_entry[1]>>
    /\ SimplifiedText # ""
    /\ session_state.document_text # ""

====
